---------------------------- MODULE Spec2Model ----------------------------
(***************************************************************************)
(* A model of GRESA_CONSIMP_AI.py: the login gate, the two submit          *)
(* handlers, the session history, the two input validators and the two     *)
(* response sectionizers.                                                  *)
(*                                                                         *)
(* A text is a sequence of characters; a character is a one-character      *)
(* string.  The non-ASCII characters of the source are named: "deg" is     *)
(* U+00B0, "Omega" U+03A9, "sup2" U+00B2, "middot" U+00B7, "warn" U+26A0   *)
(* and "vs16" U+FE0F.                                                      *)
(***************************************************************************)
EXTENDS Integers, Sequences, FiniteSets, TLC

VARIABLES
    session_state,  \* st.session_state: a function from the keys set so far
    run,            \* what the last script run did (page reached, calls, ...)
    recorded,       \* every entry handed to add_to_history, oldest first
    clock,          \* datetime.now() at the latest add_to_history, in seconds
    raw,            \* the text a pure function is applied to
    op,             \* the pure function that was applied to raw ("none" before)
    out             \* its result

vars == <<session_state, run, recorded, clock, raw, op, out>>

-----------------------------------------------------------------------------
(* Texts *)

Chars(s) == [i \in 1..Len(s) |-> SubSeq(s, i, i)]

RECURSIVE Flatten(_)
Flatten(ps) == IF ps = <<>> THEN <<>> ELSE Head(ps) \o Flatten(Tail(ps))

Range(f) == {f[i] : i \in DOMAIN f}

UpperLetters == Range(Chars("ABCDEFGHIJKLMNOPQRSTUVWXYZ"))
LowerLetters == Range(Chars("abcdefghijklmnopqrstuvwxyz"))
AsciiLetters == UpperLetters \cup LowerLetters
Digits == Range(Chars("0123456789"))

\* str.strip() and str.split() with no argument: the whitespace characters
Whitespace == {" ", "\n", "\t", "\r"}

\* \w of a str pattern: alphanumerics and the underscore; U+03A9 is a letter and
\* U+00B2 a digit for str.isalnum(), U+00B0 and U+00B7 are not
WordChars == AsciiLetters \cup Digits \cup {"_", "Omega", "sup2"}

IsPrefixAt(p, s, i) ==
    /\ i + Len(p) - 1 <= Len(s)
    /\ \A k \in DOMAIN p : s[i + k - 1] = p[k]

\* str.strip(): drop the leading and the trailing whitespace
strip(s) ==
    IF \A i \in 1..Len(s) : s[i] \in Whitespace THEN <<>>
    ELSE LET lo == CHOOSE i \in 1..Len(s) :
                       s[i] \notin Whitespace /\ \A j \in 1..(i - 1) : s[j] \in Whitespace
             hi == CHOOSE i \in 1..Len(s) :
                       s[i] \notin Whitespace /\ \A j \in (i + 1)..Len(s) : s[j] \in Whitespace
         IN  SubSeq(s, lo, hi)

-----------------------------------------------------------------------------
(* Input Validator *)

MinProblemLen == 15
MinConceptWords == 1
MaxConceptWords == 10

\* the unit whitelist of is_valid_problem, in the order of the source
units ==
    << Chars("m"), Chars("cm"), Chars("mm"), Chars("km"), Chars("kg"), Chars("g"),
       Chars("s"), Chars("N"), Chars("J"), Chars("W"), Chars("A"), Chars("V"),
       <<"Omega">>, Chars("ohm"), Chars("Hz"), <<"deg", "C">>, Chars("K"),
       Chars("mol"), Chars("Pa"), Chars("L"), Chars("m/s"),
       Chars("m/s") \o <<"sup2">>, <<"N", "middot", "m">>, Chars("J/kg") >>

\* \b before position i (1..Len(s)+1): exactly one of s[i-1], s[i] is a word
\* character; outside the text counts as a non-word character
WordBoundary(s, i) ==
    (i - 1 >= 1 /\ s[i - 1] \in WordChars) # (i <= Len(s) /\ s[i] \in WordChars)

\* re.search(rf'\b{unit}\b', text): no unit holds a regex metacharacter
search_unit(unit, text) ==
    \E i \in 1..Len(text) :
        /\ IsPrefixAt(unit, text, i)
        /\ WordBoundary(text, i)
        /\ WordBoundary(text, i + Len(unit))

\* re.search(r'\d+(\.\d+)?', text): the leftmost digit run, its fraction optional
search_number(text) ==
    \E i \in 1..Len(text) : text[i] \in Digits

is_valid_problem(text0) ==
    LET text == strip(text0)
        has_question == \E i \in 1..Len(text) : text[i] = "?"
        has_number == search_number(text)
        has_unit == \E u \in DOMAIN units : search_unit(units[u], text)
    IN  IF text = <<>> THEN FALSE
        ELSE IF Len(text) < MinProblemLen THEN FALSE
        ELSE IF has_question /\ (has_number \/ has_unit) THEN TRUE
        ELSE FALSE

\* str.split() with no argument: the maximal runs of non-whitespace characters
RECURSIVE split(_)
split(s) ==
    IF s = <<>> THEN <<>>
    ELSE IF Head(s) \in Whitespace THEN split(Tail(s))
    ELSE LET stops == {i \in 1..Len(s) : s[i] \in Whitespace}
             n == IF stops = {} THEN Len(s)
                  ELSE (CHOOSE i \in stops : \A j \in stops : i <= j) - 1
         IN  <<SubSeq(s, 1, n)>> \o split(SubSeq(s, n + 1, Len(s)))

\* is_valid_concept with the upper limit off by one
is_valid_concept_below_limit(text) ==
    LET word_count == Len(split(strip(text)))
    IN  MinConceptWords <= word_count /\ word_count < MaxConceptWords

is_valid_concept(text) ==
    LET stripped == strip(text)
        word_count == Len(split(stripped))
    IN  IF MinConceptWords <= word_count /\ word_count <= MaxConceptWords
        THEN TRUE ELSE FALSE

-----------------------------------------------------------------------------
(* Completion Client *)

\* the marker of an error string: U+26A0 U+FE0F, " Error: "
ErrorMarker == <<"warn", "vs16">> \o Chars(" Error: ")

\* ask_openai: outcome is what the service did with the one request sent,
\* [ok |-> TRUE, text |-> the message content] or
\* [ok |-> FALSE, text |-> str(e) of the exception raised]
ask_openai(outcome) ==
    IF outcome.ok THEN strip(outcome.text)
    ELSE ErrorMarker \o outcome.text

-----------------------------------------------------------------------------
(* Response Sectionizer: GRESA *)

\* the keys of sections, in the order of the dict
sections ==
    << Chars("Given:"), Chars("Required:"), Chars("Equation:"),
       Chars("Solution:"), Chars("Answer:") >>

TextMacro == Chars("\\text{")
ApproxMacro == Chars("\\approx")

Min(S) == CHOOSE i \in S : \A j \in S : i <= j

\* the length of the longest run of characters of C that starts at s[i]
RunLen(s, i, C) ==
    LET stops == {j \in i..Len(s) : s[j] \notin C}
    IN  IF stops = {} THEN Len(s) - i + 1 ELSE Min(stops) - i

\* the length of the match of (\\text\{.*?\}|\\approx|\\[a-zA-Z]+|\$+) that
\* starts at s[i], 0 when there is none: the alternatives are tried in order,
\* "." stops at a newline, and the two runs are greedy
MarkupMatchLen(s, i) ==
    LET from == i + Len(TextMacro)
        closes == {j \in from..Len(s) : s[j] = "}"}
        breaks == {j \in from..Len(s) : s[j] = "\n"}
    IN  IF /\ IsPrefixAt(TextMacro, s, i)
           /\ closes # {}
           /\ \A b \in breaks : b > Min(closes)
        THEN Min(closes) - i + 1
        ELSE IF IsPrefixAt(ApproxMacro, s, i) THEN Len(ApproxMacro)
        ELSE IF s[i] = "\\" /\ i + 1 <= Len(s) /\ s[i + 1] \in AsciiLetters
        THEN 1 + RunLen(s, i + 1, AsciiLetters)
        ELSE IF s[i] = "$" THEN RunLen(s, i, {"$"})
        ELSE 0

\* re.sub(pattern, '', s) from s[i] on: one pass, left to right; what a match
\* removes is not scanned again
RECURSIVE sub_markup(_, _)
sub_markup(s, i) ==
    IF i > Len(s) THEN <<>>
    ELSE LET n == MarkupMatchLen(s, i)
         IN  IF n > 0 THEN sub_markup(s, i + n)
             ELSE <<s[i]>> \o sub_markup(s, i + 1)

clean_markup(response_text) == sub_markup(response_text, 1)

LabelAt(s, i) == {k \in DOMAIN sections : IsPrefixAt(sections[k], s, i)}

\* re.split with the five labels captured, from s[i] on: the text before the
\* leftmost label, the label, and so on; the last part is the text left over
RECURSIVE split_labels(_, _)
split_labels(s, i) ==
    LET hits == {j \in i..Len(s) : LabelAt(s, j) # {}}
    IN  IF hits = {} THEN <<SubSeq(s, i, Len(s))>>
        ELSE LET j == Min(hits)
                 lab == sections[CHOOSE k \in LabelAt(s, j) : TRUE]
             IN  <<SubSeq(s, i, j - 1), lab>> \o split_labels(s, j + Len(lab))

Put(f, k, v) == [x \in DOMAIN f \cup {k} |-> IF x = k THEN v ELSE f[x]]

\* walk_splits keeping what a label has accumulated when the label comes again
RECURSIVE walk_splits_append(_, _)
walk_splits_append(splits, acc) ==
    IF splits = <<>> THEN acc
    ELSE LET part == Head(splits)
             next ==
                 IF part \in Range(sections)
                 THEN [content_dict |->
                           IF part \in DOMAIN acc.content_dict THEN acc.content_dict
                           ELSE Put(acc.content_dict, part, <<>>),
                       current_sec |-> part]
                 ELSE IF acc.current_sec # <<>>
                 THEN [content_dict |->
                           Put(acc.content_dict, acc.current_sec,
                               acc.content_dict[acc.current_sec]
                                   \o strip(part) \o <<"\n">>),
                       current_sec |-> acc.current_sec]
                 ELSE acc
         IN  walk_splits_append(Tail(splits), next)

\* the loop over splits: acc is [content_dict, current_sec], current_sec <<>>
\* standing for ""
RECURSIVE walk_splits(_, _)
walk_splits(splits, acc) ==
    IF splits = <<>> THEN acc
    ELSE LET part == Head(splits)
             next ==
                 IF part \in Range(sections)
                 THEN [content_dict |-> Put(acc.content_dict, part, <<>>),
                       current_sec |-> part]
                 ELSE IF acc.current_sec # <<>>
                 THEN [content_dict |->
                           Put(acc.content_dict, acc.current_sec,
                               acc.content_dict[acc.current_sec]
                                   \o strip(part) \o <<"\n">>),
                       current_sec |-> acc.current_sec]
                 ELSE acc
         IN  walk_splits(Tail(splits), next)

\* str.replace("\n", "<br>"), "<br>" kept as one element
replace_newlines(s) == [i \in 1..Len(s) |-> IF s[i] = "\n" THEN "<br>" ELSE s[i]]

\* render_sections without the test for a blank body
RECURSIVE render_sections_keep_blank(_, _)
render_sections_keep_blank(content_dict, k) ==
    IF k > Len(sections) THEN <<>>
    ELSE LET sec == sections[k]
         IN  (IF sec \in DOMAIN content_dict
              THEN <<[sec |-> sec,
                      body |-> replace_newlines(strip(content_dict[sec]))]>>
              ELSE <<>>)
             \o render_sections_keep_blank(content_dict, k + 1)

\* the expanders rendered for the sections of content_dict, from sections[k] on
RECURSIVE render_sections(_, _)
render_sections(content_dict, k) ==
    IF k > Len(sections) THEN <<>>
    ELSE LET sec == sections[k]
         IN  (IF sec \in DOMAIN content_dict /\ strip(content_dict[sec]) # <<>>
              THEN <<[sec |-> sec,
                      body |-> replace_newlines(strip(content_dict[sec]))]>>
              ELSE <<>>)
             \o render_sections(content_dict, k + 1)

\* display_gresa_response: the expanders it renders, in order
display_gresa_response(response_text) ==
    LET clean_text == clean_markup(response_text)
        splits == split_labels(clean_text, 1)
        final == walk_splits(splits, [content_dict |-> [x \in {} |-> <<>>],
                                      current_sec |-> <<>>])
    IN  render_sections(final.content_dict, 1)

-----------------------------------------------------------------------------
(* Response Sectionizer: Concept Simplifier *)

levels == << Chars("Easy"), Chars("Intermediate"), Chars("Advanced") >>

\* re.IGNORECASE on ASCII letters
LowerOf ==
    LET U == Chars("ABCDEFGHIJKLMNOPQRSTUVWXYZ")
        L == Chars("abcdefghijklmnopqrstuvwxyz")
    IN  [c \in UpperLetters |-> L[CHOOSE k \in 1..26 : U[k] = c]]

lower(c) == IF c \in UpperLetters THEN LowerOf[c] ELSE c

IsPrefixAtIgnoreCase(p, s, i) ==
    /\ i + Len(p) - 1 <= Len(s)
    /\ \A k \in 1..Len(p) : lower(s[i + k - 1]) = lower(p[k])

\* the lookahead (?=Easy:|Intermediate:|Advanced:|$) at position j: "$" holds
\* at the end of the text and before a newline that ends it
TierLookahead(s, j) ==
    \/ \E k \in DOMAIN levels : IsPrefixAtIgnoreCase(levels[k] \o <<":">>, s, j)
    \/ j = Len(s) + 1
    \/ (j = Len(s) /\ s[j] = "\n")

\* re.search(rf"{level}:(.*?)(?=...)", response, DOTALL | IGNORECASE):
\* <<>> for no match, else <<group(1)>>
search_level(level, response) ==
    LET label == level \o <<":">>
        hits == {i \in 1..Len(response) : IsPrefixAtIgnoreCase(label, response, i)}
    IN  IF hits = {} THEN <<>>
        ELSE LET from == Min(hits) + Len(label)
                 to == Min({j \in from..(Len(response) + 1) : TierLookahead(response, j)})
             IN  << SubSeq(response, from, to - 1) >>

\* the loop over the three levels: the expanders rendered, in order
RECURSIVE render_levels(_, _)
render_levels(response, k) ==
    IF k > Len(levels) THEN <<>>
    ELSE LET match == search_level(levels[k], response)
         IN  (IF match # <<>>
              THEN <<[sec |-> levels[k], body |-> strip(match[1])]>>
              ELSE <<>>)
             \o render_levels(response, k + 1)

display_concept_response(response) == render_levels(response, 1)

-----------------------------------------------------------------------------
(* The session: st.session_state and the script that runs on every interaction *)

Passphrase == "crhsshs123"

Has(ss, k) == k \in DOMAIN ss

Authenticated(ss) == Has(ss, "authenticated") /\ ss["authenticated"]

History(ss) == IF Has(ss, "history") THEN ss["history"] ELSE <<>>

\* reset_session_state, the on_click callback of the refresh button
reset_session_state(ss) ==
    [k \in DOMAIN ss \cup {"problem_text", "concept_text", "uploaded_problem_file"} |->
        IF k \in {"problem_text", "concept_text", "uploaded_problem_file"}
        THEN <<>> ELSE ss[k]]

\* login_gate without the st.stop() that ends the login page
login_gate_no_stop(ss, password) ==
    LET s1 == IF ~Has(ss, "authenticated") THEN Put(ss, "authenticated", FALSE) ELSE ss
    IN  IF ~s1["authenticated"] /\ password = Passphrase
        THEN [ss |-> Put(s1, "authenticated", TRUE), next |-> "rerun"]
        ELSE [ss |-> s1, next |-> "continue"]

\* the login gate: next is "stop" (st.stop()), "rerun" (st.rerun()) or
\* "continue" (the gate is skipped)
login_gate(ss, password) ==
    LET s1 == IF ~Has(ss, "authenticated") THEN Put(ss, "authenticated", FALSE) ELSE ss
    IN  IF ~s1["authenticated"]
        THEN IF password = Passphrase
             THEN [ss |-> Put(s1, "authenticated", TRUE), next |-> "rerun"]
             ELSE [ss |-> s1, next |-> "stop"]
        ELSE [ss |-> s1, next |-> "continue"]

init_history(ss) == IF ~Has(ss, "history") THEN Put(ss, "history", <<>>) ELSE ss

\* add_to_history appending the entry instead of inserting it at 0
add_to_history_append(ss, mode, input_text, response, now) ==
    Put(ss, "history",
        Append(ss["history"],
               [timestamp |-> now, mode |-> mode,
                input |-> strip(input_text), response |-> strip(response)]))

add_to_history(ss, mode, input_text, response, now) ==
    LET entry == [timestamp |-> now, mode |-> mode,
                  input |-> strip(input_text), response |-> strip(response)]
    IN  Put(ss, "history", <<entry>> \o ss["history"])

\* show_history: the expanders it renders, one per entry, numbered from 1
show_history(ss) == [i \in 1..Len(ss["history"]) |-> ss["history"][i]]

\* get_problem_input: typed is the text area, extracted the OCR text of the
\* uploaded image (<<>> without an upload); the text it returns and the state
get_problem_input(ss, typed, extracted) ==
    LET s1 == IF ~Has(ss, "problem_text") THEN Put(ss, "problem_text", <<>>) ELSE ss
        text_input == IF strip(extracted) # <<>> /\ strip(typed) = <<>>
                      THEN extracted ELSE typed
    IN  [ss |-> Put(s1, "problem_text", text_input), text |-> text_input]

Quiet(ss) == [ss |-> ss, calls |-> 0, views |-> 0, log |-> <<>>]

\* solve_with_gresa asking for the completion before it validates the text
solve_with_gresa_call_first(ss, problem_text, outcome, now) ==
    LET answer == ask_openai(outcome)
    IN  IF ~is_valid_problem(problem_text)
        THEN [ss |-> ss, calls |-> 1, views |-> 0, log |-> <<>>]
        ELSE [ss |-> add_to_history(ss, "GRESA", problem_text, answer, now),
              calls |-> 1, views |-> 0,
              log |-> <<[mode |-> "GRESA", input_text |-> problem_text,
                         response |-> answer, at |-> now]>>]

\* the "Solve with GRESA" handler; rendering changes no state
solve_with_gresa(ss, problem_text, outcome, now) ==
    IF ~is_valid_problem(problem_text) THEN Quiet(ss)
    ELSE LET answer == ask_openai(outcome)
         IN  [ss |-> add_to_history(ss, "GRESA", problem_text, answer, now),
              calls |-> 1, views |-> 0,
              log |-> <<[mode |-> "GRESA", input_text |-> problem_text,
                         response |-> answer, at |-> now]>>]

\* the "Simplify Concept" handler
simplify_concept(ss, concept_text, outcome, now) ==
    IF ~is_valid_concept(concept_text) THEN Quiet(ss)
    ELSE LET response == ask_openai(outcome)
         IN  [ss |-> add_to_history(ss, "Concept Simplifier", concept_text, response, now),
              calls |-> 1, views |-> 0,
              log |-> <<[mode |-> "Concept Simplifier", input_text |-> concept_text,
                         response |-> response, at |-> now]>>]

\* the script below the gate: the history key, the history view, the two modes
main_page(ss, mode, typed, extracted, button, outcome, now) ==
    LET s1 == init_history(ss)
    IN  IF mode = "View History"
        THEN [ss |-> s1, calls |-> 0, views |-> 1, log |-> <<>>]
        ELSE LET in == get_problem_input(s1, typed, extracted)
             IN  IF mode = "GRESA Mode"
                 THEN IF button = "Solve with GRESA"
                      THEN solve_with_gresa(in.ss, in.text, outcome, now)
                      ELSE Quiet(in.ss)
                 ELSE IF button = "Simplify Concept"
                      THEN simplify_concept(in.ss, in.text, outcome, now)
                      ELSE Quiet(in.ss)

\* one run of the script.  After st.rerun() the script starts again with the
\* widgets of a first render: the first radio option, an empty text area, no
\* button pressed.
script_run(ss, password, mode, typed, extracted, button, outcome, now) ==
    LET gate == login_gate(ss, password)
    IN  IF gate.next = "stop"
        THEN [page |-> "login", mode |-> "", button |-> ""] @@ Quiet(gate.ss)
        ELSE IF gate.next = "rerun"
        THEN [page |-> "main", mode |-> "GRESA Mode", button |-> ""]
             @@ main_page(gate.ss, "GRESA Mode", <<>>, <<>>, "", outcome, now)
        ELSE [page |-> "main", mode |-> mode, button |-> button]
             @@ main_page(gate.ss, mode, typed, extracted, button, outcome, now)

NoRun ==
    [page |-> "none", password |-> "", mode |-> "", button |-> "",
     calls |-> 0, views |-> 0]

SessionInit ==
    /\ session_state = [k \in {} |-> FALSE]
    /\ run = NoRun
    /\ recorded = <<>>
    /\ clock = 0

SessionIdle == UNCHANGED <<session_state, run, recorded, clock>>

MaxHistory == 2

Passwords == {"", "letmein", Passphrase}

\* blank (also an image with no text); a valid concept that is no problem; a
\* valid problem that is no concept
Texts ==
    { <<" ">>,
      Chars(" What is 5? "),
      Chars("a b c d e f g h i j 5?") }

Outcomes ==
    { [ok |-> TRUE, text |-> Chars(" Given: a\nAnswer: 5\n")],
      [ok |-> FALSE, text |-> Chars("timed out")] }

\* the password box exists on the login page only
PasswordBox(ss) == IF Authenticated(ss) THEN {""} ELSE Passwords

\* the text area and the OCR text: a typed text without an upload, or an
\* uploaded image of a problem beside a typed text
Inputs ==
    {[typed |-> t, extracted |-> <<>>] : t \in Texts}
    \cup {[typed |-> Chars(" What is 5? "),
           extracted |-> Chars("a b c d e f g h i j 5?")]}

NoOutcome == [ok |-> TRUE, text |-> <<>>]

\* the script run that an interaction starts, with the state the widgets are in
\* (now is what datetime.now() reads if the run gets to add_to_history)
Interact(ss, password, mode, typed, extracted, button, outcome, now) ==
    \E r \in {script_run(ss, password, mode, typed, extracted, button, outcome, now)} :
        /\ Len(History(r.ss)) <= MaxHistory
        /\ now >= clock
        /\ session_state' = r.ss
        /\ run' = [page |-> r.page,
                   password |-> password,
                   mode |-> r.mode, button |-> r.button,
                   calls |-> r.calls, views |-> r.views]
        /\ recorded' = recorded \o r.log
        /\ clock' = IF r.log # <<>> THEN now ELSE clock
        /\ UNCHANGED <<raw, op, out>>

\* the password box of the login page, also the first load (nothing entered)
Login(password) ==
    /\ ~Authenticated(session_state)
    /\ Interact(session_state, password, "GRESA Mode", <<>>, <<>>, "", NoOutcome, clock)

\* the text area, the uploader or the mode radio changes
EditInput(password, mode, typed, extracted) ==
    /\ mode # "View History"
    /\ Interact(session_state, password, mode, typed, extracted, "", NoOutcome, clock)

SolveWithGRESA(password, typed, extracted, outcome, now) ==
    /\ outcome \in Outcomes
    /\ Interact(session_state, password, "GRESA Mode", typed, extracted,
                "Solve with GRESA", outcome, now)

SimplifyConcept(password, typed, extracted, outcome, now) ==
    /\ outcome \in Outcomes
    /\ Interact(session_state, password, "Concept Simplifier Mode", typed, extracted,
                "Simplify Concept", outcome, now)

ViewHistory(password) ==
    /\ password \in Passwords
    /\ Interact(session_state, password, "View History", <<>>, <<>>, "", NoOutcome, clock)

\* the refresh button: the callback runs, then the script
RefreshClearInputs(password, mode, typed) ==
    /\ password \in Passwords
    /\ Interact(reset_session_state(session_state), password, mode, typed, <<>>, "",
                NoOutcome, clock)

Init ==
    /\ SessionInit
    /\ raw = <<>>
    /\ op = "none"
    /\ out = <<>>

Next ==
    \/ \E pw \in Passwords : Login(pw)
    \/ \E pw \in PasswordBox(session_state),
          m \in {"GRESA Mode", "Concept Simplifier Mode"},
          i \in Inputs : EditInput(pw, m, i.typed, i.extracted)
    \/ \E pw \in PasswordBox(session_state), i \in Inputs, o \in Outcomes :
          \E now \in {clock, clock + 1} : SolveWithGRESA(pw, i.typed, i.extracted, o, now)
    \/ \E pw \in PasswordBox(session_state), i \in Inputs, o \in Outcomes :
          \E now \in {clock, clock + 1} : SimplifyConcept(pw, i.typed, i.extracted, o, now)
    \/ \E pw \in PasswordBox(session_state) : ViewHistory(pw)
    \/ \E pw \in PasswordBox(session_state),
          m \in {"GRESA Mode", "Concept Simplifier Mode", "View History"},
          t \in Texts : RefreshClearInputs(pw, m, t)

Spec == Init /\ [][Next]_vars

\* the entry add_to_history builds from what it is handed
EntryOf(r) ==
    [timestamp |-> r.at, mode |-> r.mode,
     input |-> strip(r.input_text), response |-> strip(r.response)]

\* C1: whatever the session did (records, resets, rejected submissions, views),
\* the history is the entries ever recorded, newest first: each record puts one
\* entry at position 0 and nothing removes, reorders or changes an entry.
C1_NewestFirst ==
    LET h == History(session_state)
        n == Len(recorded)
    IN  /\ Len(h) = n
        /\ \A i \in 1..n : h[i] = EntryOf(recorded[n + 1 - i])

\* two different entries were recorded, and the inputs were reset since
C1_Witness ==
    /\ Len(recorded) = 2
    /\ recorded[1].mode # recorded[2].mode
    /\ History(session_state)[1].mode = recorded[2].mode
    /\ Has(session_state, "concept_text")
    /\ run.views = 1

Submitted == run'.page = "main" /\ run'.button \in {"Solve with GRESA", "Simplify Concept"}

\* C2: a submit whose text the validator rejects makes no completion call and
\* leaves the history as it was; one it accepts makes exactly one call and
\* then records exactly one entry for it, an error string included.
C2_SubmitOnce ==
    [][ Submitted =>
          LET text == session_state'["problem_text"]
              accepted == IF run'.button = "Solve with GRESA"
                          THEN is_valid_problem(text) ELSE is_valid_concept(text)
              h == History(session_state)
              h2 == History(session_state')
          IN  IF accepted
              THEN /\ run'.calls = 1
                   /\ Len(h2) = Len(h) + 1
                   /\ Tail(h2) = h
                   /\ Head(h2).input = strip(text)
                   /\ Head(h2).mode = (IF run'.button = "Solve with GRESA"
                                       THEN "GRESA" ELSE "Concept Simplifier")
                   /\ Head(h2).response \in {strip(ask_openai(o)) : o \in Outcomes}
              ELSE /\ run'.calls = 0
                   /\ h2 = h
      ]_vars

\* the last run was an accepted submit whose completion failed, and the error
\* string is the newest entry
C2_Witness ==
    /\ run.page = "main"
    /\ run.button = "Solve with GRESA"
    /\ run.calls = 1
    /\ IsPrefixAt(ErrorMarker, History(session_state)[1].response, 1)
    /\ Len(History(session_state)) = 2

\* C4: no completion call, history insertion or history view happens while the
\* authenticated flag is false; the flag turns true only on a run whose
\* password is the passphrase, and never turns back to false.
C4_OnlyAuthorized ==
    /\ []((run.calls > 0 \/ run.views > 0 \/ recorded # <<>>
              \/ History(session_state) # <<>>)
            => Authenticated(session_state))
    /\ [][ /\ Authenticated(session_state) => Authenticated(session_state')
           /\ (~Authenticated(session_state) /\ Authenticated(session_state'))
                  => run'.password = Passphrase
         ]_vars

\* after a login, a completion was recorded and the history is being viewed
C4_Witness ==
    /\ Authenticated(session_state)
    /\ run.views = 1
    /\ recorded # <<>>

-----------------------------------------------------------------------------
(* is_valid_problem applied to bounded inputs *)

MaxPieces == 4

PieceSeqs(P, n) == UNION {[1..k -> P] : k \in 0..n}

ProblemPieces ==
    { Chars("what is the "), Chars("?"), Chars("5"), Chars(" "), Chars("kg"),
      <<"deg", "C">>, Chars("x") }

ProblemInputs == {Flatten(ps) : ps \in PieceSeqs(ProblemPieces, MaxPieces)}

InitProblem ==
    /\ SessionInit
    /\ raw \in ProblemInputs
    /\ op = "none"
    /\ out = FALSE

ValidateProblem ==
    /\ op = "none"
    /\ op' = "is_valid_problem"
    /\ out' = is_valid_problem(raw)
    /\ UNCHANGED raw
    /\ SessionIdle

SpecProblem == InitProblem /\ [][ValidateProblem]_vars

\* a unit token stands as a whole word: no word character touches it
WholeWordAt(unit, s, i) ==
    /\ IsPrefixAt(unit, s, i)
    /\ ~(i - 1 >= 1 /\ s[i - 1] \in WordChars)
    /\ ~(i + Len(unit) <= Len(s) /\ s[i + Len(unit)] \in WordChars)

ProblemLooksValid(s) ==
    LET t == strip(s)
    IN  /\ Len(t) >= MinProblemLen
        /\ \E i \in 1..Len(t) : t[i] = "?"
        /\ \/ \E i \in 1..Len(t) : t[i] \in Digits
           \/ \E u \in DOMAIN units : \E i \in 1..Len(t) : WholeWordAt(units[u], t, i)

\* C5: is_valid_problem(text) is true iff the trimmed text has at least 15
\* characters, holds a question mark, and holds a numeral or a whole-word
\* occurrence of a whitelisted unit; false for "" and for "What is 5?".
C5_ProblemIff ==
    op = "is_valid_problem" =>
        /\ out = ProblemLooksValid(raw)
        /\ ~is_valid_problem(<<>>)
        /\ ~is_valid_problem(Chars("What is 5?"))

-----------------------------------------------------------------------------
(* is_valid_concept applied to bounded inputs *)

MaxWords == 12

ConceptWords == {Chars("a"), Chars("Newton's")}
ConceptGaps == {<<" ">>, <<" ", " ">>, <<"\n">>}
ConceptEdges == {<<>>, <<" ">>, <<"\n", " ">>}

\* n copies of word, the gaps alternating between g1 and g2
RECURSIVE Phrase(_, _, _, _)
Phrase(n, word, g1, g2) ==
    IF n = 0 THEN <<>>
    ELSE IF n = 1 THEN word
    ELSE Phrase(n - 1, word, g2, g1) \o g1 \o word

ConceptInputs ==
    { lead \o Phrase(n, w, g1, g2) \o trail :
        n \in 0..MaxWords, w \in ConceptWords, g1 \in ConceptGaps,
        g2 \in ConceptGaps, lead \in ConceptEdges, trail \in ConceptEdges }

InitConcept ==
    /\ SessionInit
    /\ raw \in ConceptInputs
    /\ op = "none"
    /\ out = FALSE

ValidateConcept ==
    /\ op = "none"
    /\ op' = "is_valid_concept"
    /\ out' = is_valid_concept(raw)
    /\ UNCHANGED raw
    /\ SessionIdle

SpecConcept == InitConcept /\ [][ValidateConcept]_vars

\* the tokens of s, counted by where each begins
WordStarts(s) ==
    {i \in 1..Len(s) :
        s[i] \notin Whitespace /\ (i = 1 \/ s[i - 1] \in Whitespace)}

\* C6: is_valid_concept(text) is true iff the text holds between 1 and 10
\* whitespace-separated tokens; blank text and 11 or more words give false.
C6_ConceptIff ==
    op = "is_valid_concept" =>
        LET n == Cardinality(WordStarts(raw))
        IN  /\ out = (1 <= n /\ n <= 10)
            /\ (n = 0 \/ n >= 11) => (out = FALSE)

C6_Witness ==
    /\ op = "is_valid_concept"
    /\ out = FALSE
    /\ Cardinality(WordStarts(raw)) = 11
    /\ Head(raw) \in Whitespace

-----------------------------------------------------------------------------
(* display_gresa_response applied to bounded inputs *)

GresaPieces ==
    Range(sections) \cup {Chars("x"), Chars("y"), <<" ", "\n">>}

GresaInputs == {Flatten(ps) : ps \in PieceSeqs(GresaPieces, MaxPieces)}

InitGresa ==
    /\ SessionInit
    /\ raw \in GresaInputs
    /\ op = "none"
    /\ out = <<>>

DisplayGresa ==
    /\ op = "none"
    /\ op' = "display_gresa_response"
    /\ out' = display_gresa_response(raw)
    /\ UNCHANGED raw
    /\ SessionIdle

SpecGresa == InitGresa /\ [][DisplayGresa]_vars

Max(S) == CHOOSE i \in S : \A j \in S : j <= i

\* where the label sections[k] stands in s
OccurrencesOf(s, k) == {i \in 1..Len(s) : IsPrefixAt(sections[k], s, i)}

\* the text between the label sections[k] at s[i] and the next label or the end
FragmentAfter(s, i, k) ==
    LET from == i + Len(sections[k])
        later == {j \in from..Len(s) : LabelAt(s, j) # {}}
    IN  SubSeq(s, from, IF later = {} THEN Len(s) ELSE Min(later) - 1)

Blank(s) == \A i \in 1..Len(s) : s[i] \in Whitespace

\* the body the label sections[k] ends up with: what follows its last occurrence
LastFragment(s, k) == FragmentAfter(s, Max(OccurrencesOf(s, k)), k)

SectionIndex(sec) == CHOOSE k \in DOMAIN sections : sections[k] = sec

\* C7: the GRESA document holds exactly the labels whose accumulated, trimmed
\* body is non-empty (no section for an absent label, for a blank body or for
\* the text before the first label), in the order Given, Required, Equation,
\* Solution, Answer whatever the order of the labels in the input.
C7_OmissionAndOrder ==
    op = "display_gresa_response" =>
        LET c == clean_markup(raw)
        IN  /\ {out[n].sec : n \in DOMAIN out} =
                   {sections[k] : k \in
                       {k \in DOMAIN sections :
                           OccurrencesOf(c, k) # {} /\ ~Blank(LastFragment(c, k))}}
            /\ \A m, n \in DOMAIN out :
                   m < n => SectionIndex(out[m].sec) < SectionIndex(out[n].sec)

\* the input names Answer before Given, both with a body, and the document
\* shows Given first
C7_Witness ==
    /\ op = "display_gresa_response"
    /\ Len(out) = 2
    /\ out[1].sec = Chars("Given:")
    /\ out[2].sec = Chars("Answer:")
    /\ IsPrefixAt(Chars("Answer:"), raw, 1)

Contains(s, t) == \E i \in 1..(Len(s) + 1) : IsPrefixAt(t, s, i)

\* C8 as stated: when a label repeats, the later fragments extend the body
\* already accumulated, so every non-blank fragment of a label is part of the
\* body the document shows for it.
C8_RepeatsExtend ==
    op = "display_gresa_response" =>
        LET c == clean_markup(raw)
        IN  \A k \in DOMAIN sections : \A i \in OccurrencesOf(c, k) :
                ~Blank(FragmentAfter(c, i, k)) =>
                    \E n \in DOMAIN out :
                        /\ out[n].sec = sections[k]
                        /\ Contains(out[n].body,
                                    replace_newlines(strip(FragmentAfter(c, i, k))))

\* C8 amended: when a label repeats, each occurrence starts a fresh
\* accumulator, so the body shown for the label is the trimmed fragment that
\* follows its last occurrence and nothing of the earlier ones; a label whose
\* last fragment is blank is not shown at all.
C8_LastOccurrenceWins ==
    op = "display_gresa_response" =>
        LET c == clean_markup(raw)
        IN  \A k \in DOMAIN sections :
                OccurrencesOf(c, k) # {} =>
                    LET shown == {n \in DOMAIN out : out[n].sec = sections[k]}
                        last == strip(LastFragment(c, k))
                    IN  IF last = <<>> THEN shown = {}
                        ELSE /\ Cardinality(shown) = 1
                             /\ \A n \in shown : out[n].body = replace_newlines(last)

\* Given: stands twice, with the bodies x and y
C8_Witness ==
    /\ op = "display_gresa_response"
    /\ raw = Chars("Given:xGiven:y")
    /\ out = <<[sec |-> Chars("Given:"), body |-> Chars("y")]>>

-----------------------------------------------------------------------------
(* display_gresa_response applied to inputs with markup *)

MarkupPieces ==
    { Chars("Given:"), Chars("\\"), Chars("$"), Chars("text{x}"), Chars("approx"),
      Chars("x") }

MarkupInputs == {Flatten(ps) : ps \in PieceSeqs(MarkupPieces, MaxPieces)}

InitMarkup ==
    /\ SessionInit
    /\ raw \in MarkupInputs
    /\ op = "none"
    /\ out = <<>>

SpecMarkup == InitMarkup /\ [][DisplayGresa]_vars

HasTextMacro(s) ==
    \E i \in 1..Len(s) :
        /\ IsPrefixAt(TextMacro, s, i)
        /\ \E j \in (i + Len(TextMacro))..Len(s) : s[j] = "}"

\* C10: the markup artifacts are stripped before the text is split on the
\* labels: no section body holds a dollar sign or a \text{...} macro, and the
\* labels shown are labels of the cleaned text.
C10_BodiesFreeOfMarkup ==
    op = "display_gresa_response" =>
        /\ \A n \in DOMAIN out :
               /\ \A i \in 1..Len(out[n].body) : out[n].body[i] # "$"
               /\ ~HasTextMacro(out[n].body)
        /\ \A n \in DOMAIN out :
               OccurrencesOf(clean_markup(raw), SectionIndex(out[n].sec)) # {}

-----------------------------------------------------------------------------
(* The Concept Simplifier tier scan applied to bounded responses *)

TierPieces ==
    { Chars("Easy:"), Chars("Intermediate:"), Chars("Advanced:"), Chars("easy:"),
      Chars("x"), <<" ", "\n">> }

TierInputs == {Flatten(ps) : ps \in PieceSeqs(TierPieces, MaxPieces)}

InitTiers ==
    /\ SessionInit
    /\ raw \in TierInputs
    /\ op = "none"
    /\ out = <<>>

\* the response is what ask_openai returned for the message content raw
DisplayConcept ==
    /\ op = "none"
    /\ op' = "display_concept_response"
    /\ out' = display_concept_response(ask_openai([ok |-> TRUE, text |-> raw]))
    /\ UNCHANGED raw
    /\ SessionIdle

SpecTiers == InitTiers /\ [][DisplayConcept]_vars

\* C9: a tier is shown only if its label occurs in the response and its body
\* is non-empty once trimmed; no tier is shown with an empty body.
C9_NoEmptyTier ==
    op = "display_concept_response" =>
        \A n \in DOMAIN out :
            /\ out[n].body # <<>>
            /\ \E i \in 1..Len(raw) :
                   IsPrefixAtIgnoreCase(out[n].sec \o <<":">>, raw, i)

-----------------------------------------------------------------------------
(* A failed completion passed through the two sectionizers *)

FailurePieces ==
    { Chars("Request timed out."), Chars("Answer:"), Chars("Easy:"), Chars("x"),
      Chars(" ") }

FailureMessages == {Flatten(ps) : ps \in PieceSeqs(FailurePieces, MaxPieces)}

InitFailure ==
    /\ SessionInit
    /\ raw \in FailureMessages
    /\ op = "none"
    /\ out = [response |-> <<>>, panels |-> <<>>]

\* the service raises an exception whose message is raw
FailGresa ==
    /\ op = "none"
    /\ op' = "gresa_failure"
    /\ LET answer == ask_openai([ok |-> FALSE, text |-> raw])
       IN  out' = [response |-> answer, panels |-> display_gresa_response(answer)]
    /\ UNCHANGED raw
    /\ SessionIdle

FailConcept ==
    /\ op = "none"
    /\ op' = "concept_failure"
    /\ LET response == ask_openai([ok |-> FALSE, text |-> raw])
       IN  out' = [response |-> response,
                   panels |-> display_concept_response(response)]
    /\ UNCHANGED raw
    /\ SessionIdle

NextFailure == FailGresa \/ FailConcept

SpecFailure == InitFailure /\ [][NextFailure]_vars

\* C3: whatever the failure message, ask_openai returns the error-marker
\* string, and either sectionizer finds no label in it and shows nothing.
C3_FailureShowsNothing ==
    op \in {"gresa_failure", "concept_failure"} =>
        /\ out.response = ErrorMarker \o raw
        /\ out.panels = <<>>

=============================================================================
